---- MODULE Spec2Model ----
(***************************************************************************)
(* The session and derived-state store of the coaching application         *)
(* (src/store.ts), the schedule poller of src/App.tsx, the persistence of  *)
(* the store to local storage and the key store of                         *)
(* src/hooks/useAistudioKey.ts.                                            *)
(*                                                                         *)
(* The zustand state object is the record `state`; every `set` of the      *)
(* store also writes the partialized state to local storage (`storage`)    *)
(* and runs the subscriber of store.ts:415-423.  Date.now() is `now`.      *)
(* `hasKey` is the key store's state and `keyManager` what the hook        *)
(* useAistudioKeyManager runs with: its parameter `enabled` and whether    *)
(* window.aistudio exists.                                                 *)
(* Texts are sequences of words, so that String.includes and the regular   *)
(* expression of handleDoshaSendMessage are computed on them.              *)
(***************************************************************************)
EXTENDS Integers, Sequences, FiniteSets, TLC

VARIABLES state, storage, pending, nextRid, now, hasKey, keyManager, pollStarts, lastOp, steps

vars == <<state, storage, pending, nextRid, now, hasKey, keyManager, pollStarts, lastOp, steps>>

(***************************************************************************)
(* Bounds of the model.                                                    *)
(***************************************************************************)
MaxRequests == 2
MaxToasts == 2
MaxSchedules == 2
MaxClock == 2
MaxSteps == 5

(***************************************************************************)
(* Values.                                                                 *)
(***************************************************************************)
\* AgentId, in the order of the chatHistories literal.
AgentIds == <<"COHERENCE", "SELF_KNOWLEDGE", "HEALTH", "EMOTIONAL_FINANCE", "INVESTMENTS">>

Agents == {AgentIds[i] : i \in 1..Len(AgentIds)}

\* null, for a session, an agent id, a chat object and an error text.
NoSession == [type |-> "null"]

NoAgent == "null"

NoChat == 0

NoText == <<>>

NoStorage == [empty |-> TRUE]

\* The inputs the model draws.
InputAgents == {"COHERENCE", "HEALTH"}

InputTools == {"dosha_diagnosis", "routine_aligner", "wellness_visualizer"}

InputViews == {"dashboard", "agents"}

InputUsvValues == {-10, 61, 130}

InputTimes == {0, 1}

InputActivities == {"meditation"}

UserText == <<"oi">>

AgentSession(agentId) == [type |-> "agent", id |-> agentId]

ToolSession(toolId) == [type |-> toolId]

HandlerSession(schedule) == [type |-> "scheduled_session_handler", schedule |-> schedule]

InputSessions == {AgentSession(a) : a \in InputAgents} \cup {ToolSession(t) : t \in InputTools}

Min(a, b) == IF a < b THEN a ELSE b

Max(a, b) == IF a > b THEN a ELSE b

\* String.includes on a text: the words of `part` occur consecutively in `text`.
Includes(text, part) ==
    \E i \in 0..(Len(text) - Len(part)) :
        \A j \in 1..Len(part) : text[i + j] = part[j]

(***************************************************************************)
(* Derived scalars.                                                        *)
(***************************************************************************)
\* Math.floor in the place of Math.round.
calculateUcsFloor(usv) ==
    (usv.spiritual + (100 - usv.emotional) + usv.physical + usv.financial) \div 4

\* Math.round((spiritual + (100 - emotional) + physical + financial) / 4):
\* the nearest integer, a half rounded up.
calculateUcs(usv) ==
    LET sum == usv.spiritual + (100 - usv.emotional) + usv.physical + usv.financial
    IN  (sum + 2) \div 4

\* The dimensions array of getRecommendation; every value is doubled, so that
\* the SELF_KNOWLEDGE mean (spiritual + (100 - emotional)) / 2 stays an integer.
dimensions(usv) ==
    << [key |-> "COHERENCE", value |-> 2 * usv.spiritual],
       [key |-> "HEALTH", value |-> 2 * usv.physical],
       [key |-> "EMOTIONAL_FINANCE", value |-> 2 * (100 - usv.emotional)],
       [key |-> "INVESTMENTS", value |-> 2 * usv.financial],
       [key |-> "SELF_KNOWLEDGE", value |-> usv.spiritual + (100 - usv.emotional)] >>

\* dimensions.sort((a, b) => a.value - b.value)[0].key: the sort is stable, so
\* the first element is the earliest entry holding the smallest value.
getRecommendation(usv) ==
    LET d == dimensions(usv)
        lowest == CHOOSE i \in 1..Len(d) :
                      /\ \A j \in 1..Len(d) : d[i].value <= d[j].value
                      /\ \A j \in 1..(i - 1) : d[j].value > d[i].value
    IN  d[lowest].key

(***************************************************************************)
(* The store: initial state, set, subscriber, persistence.                 *)
(***************************************************************************)
EmptyTool == [messages |-> <<>>, isFinished |-> FALSE, error |-> NoText]

InitialState ==
    [ usv |-> [spiritual |-> 75, emotional |-> 40, physical |-> 60, financial |-> 50],
      ucs |-> 61,
      recommendation |-> "EMOTIONAL_FINANCE",
      activeView |-> "dashboard",
      currentSession |-> NoSession,
      lastAgentContext |-> NoAgent,
      chatHistories |-> [a \in Agents |-> <<>>],
      isLoadingMessage |-> FALSE,
      toolStates |-> [ therapeuticJournal |-> [entry |-> NoText, feedback |-> NoText, error |-> NoText],
                       doshaDiagnosis |-> EmptyTool,
                       routineAligner |-> EmptyTool,
                       doshaResult |-> "null" ],
      toasts |-> <<>>,
      doshaChat |-> NoChat,
      routineAlignerChat |-> NoChat,
      isOnboardingVisible |-> TRUE,
      schedules |-> <<>> ]

\* The subscriber: when usv changed, both derived scalars are set again.
subscribe(s, prevState) ==
    IF s.usv # prevState.usv
    THEN [s EXCEPT !.ucs = calculateUcs(s.usv), !.recommendation = getRecommendation(s.usv)]
    ELSE s

\* A filter that drops the session as well.
partializeDropsSession(s) ==
    [k \in (DOMAIN s) \ {"doshaChat", "routineAlignerChat", "currentSession"} |-> s[k]]

\* The keys of the state that are written to local storage.
partialize(s) ==
    [k \in (DOMAIN s) \ {"doshaChat", "routineAlignerChat"} |-> s[k]]

\* The default merge of persist: { ...currentState, ...persistedState }.
merge(persisted, current) ==
    IF persisted = NoStorage
    THEN current
    ELSE [k \in DOMAIN current |-> IF k \in DOMAIN persisted THEN persisted[k] ELSE current[k]]

\* A rehydration that keeps the stored scalars.
onRehydrateStorageKeeps(s) == s

onRehydrateStorage(s) ==
    [s EXCEPT !.ucs = calculateUcs(s.usv), !.recommendation = getRecommendation(s.usv)]

\* One handler's writes to the store: `s` is the state its last set leaves
\* (the subscriber has run on it) and local storage holds its partialization.
Commit(s, op) ==
    /\ state' = subscribe(s, state)
    /\ storage' = partialize(subscribe(s, state))
    /\ lastOp' = [name |-> op, replaced |-> state.currentSession # NoSession]

addToast(s, message, type) ==
    [s EXCEPT !.toasts = Append(@, [id |-> <<"toast", ToString(now)>>, message |-> message, type |-> type])]

CanToast == Len(state.toasts) < MaxToasts

\* useAistudioKeyManager(enabled = true) in a page that has window.aistudio.
DefaultKeyManager == [enabled |-> TRUE, aistudio |-> TRUE]

Init ==
    /\ state = InitialState
    /\ storage = NoStorage
    /\ pending = {}
    /\ nextRid = 1
    /\ now = 0
    /\ hasKey = "null"
    /\ keyManager = DefaultKeyManager
    /\ pollStarts = <<>>
    /\ lastOp = [name |-> "init", replaced |-> FALSE]
    /\ steps = 0

(***************************************************************************)
(* Sessions.                                                               *)
(***************************************************************************)
\* AGENTS[agentId].initialMessage of constants.tsx: every mentor greets.
AGENTS == [a \in Agents |-> [name |-> a, initialMessage |-> <<"Ola", a>>]]

Message(prefix, sender, text) ==
    [id |-> <<prefix, ToString(now)>>, sender |-> sender, text |-> text, timestamp |-> now]

\* A greeting that does not look at the history.
addInitialMessageAlways(s, agentId) ==
    IF AGENTS[agentId].initialMessage # NoText
    THEN [s EXCEPT !.chatHistories[agentId] =
              Append(@, [id |-> <<"agent-initial", agentId>>, sender |-> "agent",
                         text |-> AGENTS[agentId].initialMessage, timestamp |-> now])]
    ELSE s

addInitialMessage(s, agentId) ==
    IF AGENTS[agentId].initialMessage # NoText /\ Len(s.chatHistories[agentId]) = 0
    THEN [s EXCEPT !.chatHistories[agentId] =
              Append(@, [id |-> <<"agent-initial", agentId>>, sender |-> "agent",
                         text |-> AGENTS[agentId].initialMessage, timestamp |-> now])]
    ELSE s

\* The synchronous head of initDoshaChat and initRoutineAlignerChat, up to the await.
initDoshaChatBegin(s) ==
    [s EXCEPT !.isLoadingMessage = TRUE, !.toolStates.doshaDiagnosis = EmptyTool]

initRoutineAlignerChatBegin(s) ==
    [s EXCEPT !.isLoadingMessage = TRUE, !.toolStates.routineAligner = EmptyTool]

Request(kind, agentId, chat) == [rid |-> nextRid, kind |-> kind, agentId |-> agentId, chat |-> chat]

\* The request startSession leaves in flight: the chat it creates is numbered
\* by the request.
startSessionRequests(session) ==
    IF session.type = "dosha_diagnosis" THEN {Request("initDosha", NoAgent, nextRid)}
    ELSE IF session.type = "routine_aligner" THEN {Request("initRoutine", NoAgent, nextRid)}
    ELSE {}

\* A startSession that leaves an active session in place.
startSessionKeepsActive(s, session) ==
    IF s.currentSession # NoSession
    THEN s
    ELSE IF session.type = "agent"
         THEN addInitialMessage([s EXCEPT !.currentSession = session,
                                          !.lastAgentContext = session.id], session.id)
         ELSE [s EXCEPT !.currentSession = session]

startSessionState(s, session) ==
    LET s1 == IF session.type = "dosha_diagnosis" THEN initDoshaChatBegin(s) ELSE s
        s2 == IF session.type = "routine_aligner" THEN initRoutineAlignerChatBegin(s1) ELSE s1
    IN  IF session.type = "agent"
        THEN addInitialMessage([s2 EXCEPT !.currentSession = session,
                                          !.lastAgentContext = session.id], session.id)
        ELSE [s2 EXCEPT !.currentSession = session]

Issue(requests) ==
    /\ requests # {} => nextRid <= MaxRequests
    /\ pending' = pending \cup requests
    /\ nextRid' = nextRid + Cardinality(requests)

startSession(session) ==
    /\ Issue(startSessionRequests(session))
    /\ Commit(startSessionState(state, session), "startSession")
    /\ UNCHANGED <<now, hasKey, pollStarts>>

endSession ==
    /\ Commit([state EXCEPT !.currentSession = NoSession], "endSession")
    /\ UNCHANGED <<pending, nextRid, now, hasKey, pollStarts>>

switchAgent(agentId) ==
    /\ Commit(addInitialMessage([state EXCEPT !.currentSession = AgentSession(agentId),
                                              !.lastAgentContext = agentId], agentId),
              "switchAgent")
    /\ UNCHANGED <<pending, nextRid, now, hasKey, pollStarts>>

\* A way back that ends the session whatever the last agent was.
goBackToAgentRoomEnds ==
    /\ Commit([state EXCEPT !.currentSession = NoSession], "goBackToAgentRoom")
    /\ UNCHANGED <<pending, nextRid, now, hasKey, pollStarts>>

goBackToAgentRoom ==
    /\ IF state.lastAgentContext # NoAgent
       THEN Commit(startSessionState(state, AgentSession(state.lastAgentContext)), "goBackToAgentRoom")
       ELSE Commit([state EXCEPT !.currentSession = NoSession], "goBackToAgentRoom")
    /\ UNCHANGED <<pending, nextRid, now, hasKey, pollStarts>>

setView(view) ==
    /\ Commit([state EXCEPT !.activeView = view], "setView")
    /\ UNCHANGED <<pending, nextRid, now, hasKey, pollStarts>>

closeOnboarding ==
    /\ Commit([state EXCEPT !.isOnboardingVisible = FALSE], "closeOnboarding")
    /\ UNCHANGED <<pending, nextRid, now, hasKey, pollStarts>>

removeToast(id) ==
    /\ Commit([state EXCEPT !.toasts = SelectSeq(@, LAMBDA t : t.id # id)], "removeToast")
    /\ UNCHANGED <<pending, nextRid, now, hasKey, pollStarts>>

(***************************************************************************)
(* The wellness dimensions.                                                *)
(***************************************************************************)
\* `updates` is a partial record: a key it lacks is undefined.
updateUsvDimensionsState(s, updates) ==
    LET s1 == IF "physical" \in DOMAIN updates
              THEN [s EXCEPT !.usv.physical = Max(0, Min(100, updates.physical))]
              ELSE s
    IN  IF "emotional" \in DOMAIN updates
        THEN [s1 EXCEPT !.usv.emotional = Max(0, Min(100, updates.emotional))]
        ELSE s1

InputUpdates ==
    {<<>>} \cup {[physical |-> p] : p \in InputUsvValues}
           \cup {[emotional |-> e] : e \in InputUsvValues}
           \cup {[physical |-> p, emotional |-> e] : p \in InputUsvValues, e \in InputUsvValues}

updateUsvDimensions(updates) ==
    /\ Commit(updateUsvDimensionsState(state, updates), "updateUsvDimensions")
    /\ UNCHANGED <<pending, nextRid, now, hasKey, pollStarts>>

\* WellnessVisualizer.handleSave: the two sliders, a toast, then onExit.
handleSave(physicalEnergy, emotionalStability) ==
    /\ state.currentSession = ToolSession("wellness_visualizer")
    /\ CanToast
    /\ LET s1 == subscribe(updateUsvDimensionsState(state,
                      [physical |-> physicalEnergy, emotional |-> 100 - emotionalStability]), state)
           s2 == addToast(s1, <<"Seu", "estado", "foi", "atualizado">>, "success")
       IN  Commit([s2 EXCEPT !.currentSession = NoSession], "handleSave")
    /\ UNCHANGED <<pending, nextRid, now, hasKey, pollStarts>>

(***************************************************************************)
(* Agent conversations.                                                    *)
(***************************************************************************)
InputErrors == {"invalidKey", "network"}

\* The errors the key store is run with: a rejected key, a network failure,
\* an exhausted quota and a malformed request.
KeyErrors == InputErrors \cup {"quota", "invalidArgument"}

AgentResponses == {<<"Resposta">>}

\* getFriendlyErrorMessage of utils/errorUtils.ts: the text for a rejected
\* key names the key, as the texts for the quota and for a malformed request
\* name the API or what is invalid; any other error falls back to the
\* default message.
getFriendlyErrorMessage(error, defaultMessage) ==
    CASE error = "invalidKey" -> <<"Chave", "de", "API", "inválida">>
      [] error = "quota" -> <<"Cota", "da", "API", "excedida">>
      [] error = "invalidArgument" -> <<"Requisição", "inválida">>
      [] OTHER -> defaultMessage

\* Object.assign({}, target, source).
assign(target, source) ==
    [k \in DOMAIN target |-> IF k \in DOMAIN source THEN source[k] ELSE target[k]]

\* A reset for every text that names the API or says invalid.
handleApiErrorKeyEither(friendlyMessage) ==
    IF Includes(friendlyMessage, <<"API">>) \/ Includes(friendlyMessage, <<"inválida">>)
    THEN "false"
    ELSE hasKey

\* handleApiError: the key store it leaves, and the store after its toast.
handleApiErrorKey(friendlyMessage) ==
    IF Includes(friendlyMessage, <<"API">>) /\ Includes(friendlyMessage, <<"inválida">>)
    THEN "false"
    ELSE hasKey

handleApiError(s, friendlyMessage) == addToast(s, friendlyMessage, "error")

\* A send that starts the history again from the message it sends.
handleSendMessageRestarts(agentId, text) ==
    /\ Issue({Request("agent", agentId, NoChat)})
    /\ Commit([state EXCEPT !.chatHistories[agentId] = <<Message("user", "user", text)>>,
                            !.isLoadingMessage = TRUE], "handleSendMessage")
    /\ UNCHANGED <<now, hasKey, pollStarts>>

handleSendMessage(agentId, text) ==
    /\ Issue({Request("agent", agentId, NoChat)})
    /\ Commit([state EXCEPT !.chatHistories[agentId] = Append(@, Message("user", "user", text)),
                            !.isLoadingMessage = TRUE], "handleSendMessage")
    /\ UNCHANGED <<now, hasKey, pollStarts>>

\* AgentRoom.handleSend: the room of the current agent session sends the
\* input unless a message is loading.
handleSend ==
    /\ state.currentSession.type = "agent"
    /\ ~state.isLoadingMessage
    /\ handleSendMessage(state.currentSession.id, UserText)

\* A response that goes to the history of the agent in session.
agentResolvedCurrent(r, agentResponseText) ==
    /\ r.kind = "agent"
    /\ pending' = pending \ {r}
    /\ LET agentId == IF state.currentSession.type = "agent" THEN state.currentSession.id ELSE r.agentId
           s1 == [state EXCEPT !.chatHistories[agentId] =
                      Append(@, Message("agent", "agent", agentResponseText))]
       IN  Commit([s1 EXCEPT !.isLoadingMessage = FALSE], "agentResolved")
    /\ UNCHANGED <<nextRid, now, hasKey, pollStarts>>

\* generateAgentResponse resolved: the try block, then finally.
agentResolved(r, agentResponseText) ==
    /\ r.kind = "agent"
    /\ pending' = pending \ {r}
    /\ LET s1 == [state EXCEPT !.chatHistories[r.agentId] =
                      Append(@, Message("agent", "agent", agentResponseText))]
       IN  Commit([s1 EXCEPT !.isLoadingMessage = FALSE], "agentResolved")
    /\ UNCHANGED <<nextRid, now, hasKey, pollStarts>>

\* A failure that sends the message again.
agentRejectedRetries(r, error) ==
    /\ r.kind = "agent"
    /\ CanToast
    /\ pending' = (pending \ {r}) \cup {[r EXCEPT !.rid = nextRid]}
    /\ nextRid' = nextRid + 1
    /\ LET errorText == getFriendlyErrorMessage(error, <<"Desculpe", AGENTS[r.agentId].name>>)
           s1 == handleApiError(state, errorText)
           s2 == [s1 EXCEPT !.chatHistories[r.agentId] =
                      Append(@, Message("agent-error", "agent", errorText))]
       IN  /\ hasKey' = handleApiErrorKey(errorText)
           /\ Commit([s2 EXCEPT !.isLoadingMessage = FALSE], "agentRejected")
    /\ UNCHANGED <<now, pollStarts>>

\* A failure whose text reaches the toast but not the history.
agentRejectedToastOnly(r, error) ==
    /\ r.kind = "agent"
    /\ CanToast
    /\ pending' = pending \ {r}
    /\ LET errorText == getFriendlyErrorMessage(error, <<"Desculpe", AGENTS[r.agentId].name>>)
           s1 == handleApiError(state, errorText)
       IN  /\ hasKey' = handleApiErrorKey(errorText)
           /\ Commit([s1 EXCEPT !.isLoadingMessage = FALSE], "agentRejected")
    /\ UNCHANGED <<nextRid, now, pollStarts>>

\* generateAgentResponse rejected: the catch block, then finally.
agentRejected(r, error) ==
    /\ r.kind = "agent"
    /\ CanToast
    /\ pending' = pending \ {r}
    /\ LET errorText == getFriendlyErrorMessage(error, <<"Desculpe", AGENTS[r.agentId].name>>)
           s1 == handleApiError(state, errorText)
           s2 == [s1 EXCEPT !.chatHistories[r.agentId] =
                      Append(@, Message("agent-error", "agent", errorText))]
       IN  /\ hasKey' = handleApiErrorKey(errorText)
           /\ Commit([s2 EXCEPT !.isLoadingMessage = FALSE], "agentRejected")
    /\ UNCHANGED <<nextRid, now, pollStarts>>

(***************************************************************************)
(* The dosha diagnosis and the routine aligner.                            *)
(***************************************************************************)
Question == <<"Pergunta">>

DoshaVerdict == <<"Dissonância", "Dominante", "(Desequilíbrio):", "Vata">>

DoshaResponses == {Question, DoshaVerdict, <<"Dissonância", "Dominante">>}

RoutineClosing == <<"esta", "rotina", "é", "um", "algoritmo,", "não", "uma", "prisão">>

RoutineResponses == {Question, RoutineClosing}

\* responseText.match(/Dissonancia Dominante \(Desequilibrio\):\s*(\w+)/i)[1]:
\* the word after the heading, "null" without a match.
doshaMatch(responseText) ==
    LET heading == <<"Dissonância", "Dominante", "(Desequilíbrio):">>
        at == {i \in 0..(Len(responseText) - 4) :
                  \A j \in 1..3 : responseText[i + j] = heading[j]}
    IN  IF at = {} THEN "null"
        ELSE responseText[(CHOOSE i \in at : \A k \in at : i <= k) + 4]

initDoshaChatResolved(r, firstMessage) ==
    /\ r.kind = "initDosha"
    /\ pending' = pending \ {r}
    /\ LET s1 == [state EXCEPT !.doshaChat = r.chat,
                                !.toolStates.doshaDiagnosis.messages =
                                    Append(@, Message("agent", "agent", firstMessage))]
       IN  Commit([s1 EXCEPT !.isLoadingMessage = FALSE], "initDoshaChatResolved")
    /\ UNCHANGED <<nextRid, now, hasKey, pollStarts>>

initDoshaChatRejected(r, error) ==
    /\ r.kind = "initDosha"
    /\ CanToast
    /\ pending' = pending \ {r}
    /\ LET errorMsg == getFriendlyErrorMessage(error, <<"Não", "foi", "possível", "iniciar", "o", "diagnóstico">>)
           s1 == handleApiError(state, errorMsg)
           s2 == [s1 EXCEPT !.toolStates.doshaDiagnosis.error = errorMsg]
       IN  /\ hasKey' = handleApiErrorKey(errorMsg)
           /\ Commit([s2 EXCEPT !.isLoadingMessage = FALSE], "initDoshaChatRejected")
    /\ UNCHANGED <<nextRid, now, pollStarts>>

\* A send that does not look for the chat.
handleDoshaSendMessageAnyway(text) ==
    /\ state.currentSession.type = "dosha_diagnosis"
    /\ Issue({Request("doshaSend", NoAgent, state.doshaChat)})
    /\ Commit([state EXCEPT !.toolStates.doshaDiagnosis.messages =
                                Append(@, Message("user", "user", text)),
                            !.isLoadingMessage = TRUE,
                            !.toolStates.doshaDiagnosis.error = NoText],
              "handleDoshaSendMessage")
    /\ UNCHANGED <<now, hasKey, pollStarts>>

\* handleDoshaSendMessage up to the await; without a chat it returns at once.
handleDoshaSendMessage(text) ==
    /\ state.currentSession.type = "dosha_diagnosis"
    /\ IF state.doshaChat = NoChat
       THEN /\ UNCHANGED <<state, storage, pending, nextRid>>
            /\ lastOp' = [name |-> "handleDoshaSendMessage", replaced |-> FALSE]
       ELSE /\ Issue({Request("doshaSend", NoAgent, state.doshaChat)})
            /\ Commit([state EXCEPT !.toolStates.doshaDiagnosis.messages =
                                        Append(@, Message("user", "user", text)),
                                    !.isLoadingMessage = TRUE,
                                    !.toolStates.doshaDiagnosis.error = NoText],
                      "handleDoshaSendMessage")
    /\ UNCHANGED <<now, hasKey, pollStarts>>

\* continueDoshaConversation resolved.  The toast of a verdict is added by a
\* set inside the producer of the outer set, whose result (the producer's
\* base with the draft's changes) is then assigned over it.
doshaResolved(r, responseText) ==
    /\ r.kind = "doshaSend"
    /\ pending' = pending \ {r}
    /\ LET isFinished == Includes(responseText, <<"Dissonância", "Dominante">>)
           dosha == doshaMatch(responseText)
           named == isFinished /\ dosha # "null"
           draft == [state EXCEPT !.toolStates.doshaDiagnosis.messages =
                                      Append(@, Message("agent", "agent", responseText)),
                                  !.toolStates.doshaDiagnosis.isFinished = isFinished,
                                  !.toolStates.doshaResult = IF named THEN dosha ELSE @]
           inner == IF named
                    THEN addToast(state, <<"Diagnóstico", "concluído:", "Desequilíbrio", "de", dosha, "detectado.">>, "info")
                    ELSE state
           s1 == assign(inner, draft)
       IN  Commit([s1 EXCEPT !.isLoadingMessage = FALSE], "doshaResolved")
    /\ UNCHANGED <<nextRid, now, hasKey, pollStarts>>

doshaRejected(r, error) ==
    /\ r.kind = "doshaSend"
    /\ CanToast
    /\ pending' = pending \ {r}
    /\ LET errorMsg == getFriendlyErrorMessage(error, <<"Ocorreu", "um", "erro", "ao", "processar", "sua", "resposta">>)
           s1 == handleApiError(state, errorMsg)
           s2 == [s1 EXCEPT !.toolStates.doshaDiagnosis.error = errorMsg]
       IN  /\ hasKey' = handleApiErrorKey(errorMsg)
           /\ Commit([s2 EXCEPT !.isLoadingMessage = FALSE], "doshaRejected")
    /\ UNCHANGED <<nextRid, now, pollStarts>>

initRoutineAlignerChatResolved(r, firstMessage) ==
    /\ r.kind = "initRoutine"
    /\ pending' = pending \ {r}
    /\ LET s1 == [state EXCEPT !.routineAlignerChat = r.chat,
                                !.toolStates.routineAligner.messages =
                                    Append(@, Message("agent", "agent", firstMessage))]
       IN  Commit([s1 EXCEPT !.isLoadingMessage = FALSE], "initRoutineAlignerChatResolved")
    /\ UNCHANGED <<nextRid, now, hasKey, pollStarts>>

\* A failure that leaves the flag to the success path.
initRoutineAlignerChatRejectedLoading(r, error) ==
    /\ r.kind = "initRoutine"
    /\ CanToast
    /\ pending' = pending \ {r}
    /\ LET errorMsg == getFriendlyErrorMessage(error, <<"Não", "foi", "possível", "iniciar", "o", "alinhador">>)
           s1 == handleApiError(state, errorMsg)
       IN  /\ hasKey' = handleApiErrorKey(errorMsg)
           /\ Commit([s1 EXCEPT !.toolStates.routineAligner.error = errorMsg],
                     "initRoutineAlignerChatRejected")
    /\ UNCHANGED <<nextRid, now, pollStarts>>

initRoutineAlignerChatRejected(r, error) ==
    /\ r.kind = "initRoutine"
    /\ CanToast
    /\ pending' = pending \ {r}
    /\ LET errorMsg == getFriendlyErrorMessage(error, <<"Não", "foi", "possível", "iniciar", "o", "alinhador">>)
           s1 == handleApiError(state, errorMsg)
           s2 == [s1 EXCEPT !.toolStates.routineAligner.error = errorMsg]
       IN  /\ hasKey' = handleApiErrorKey(errorMsg)
           /\ Commit([s2 EXCEPT !.isLoadingMessage = FALSE], "initRoutineAlignerChatRejected")
    /\ UNCHANGED <<nextRid, now, pollStarts>>

handleRoutineAlignerSendMessage(text) ==
    /\ state.currentSession.type = "routine_aligner"
    /\ IF state.routineAlignerChat = NoChat
       THEN /\ UNCHANGED <<state, storage, pending, nextRid>>
            /\ lastOp' = [name |-> "handleRoutineAlignerSendMessage", replaced |-> FALSE]
       ELSE /\ Issue({Request("routineSend", NoAgent, state.routineAlignerChat)})
            /\ Commit([state EXCEPT !.toolStates.routineAligner.messages =
                                        Append(@, Message("user", "user", text)),
                                    !.isLoadingMessage = TRUE,
                                    !.toolStates.routineAligner.error = NoText],
                      "handleRoutineAlignerSendMessage")
    /\ UNCHANGED <<now, hasKey, pollStarts>>

routineResolved(r, responseText) ==
    /\ r.kind = "routineSend"
    /\ pending' = pending \ {r}
    /\ LET isFinished == Includes(responseText, RoutineClosing)
           s1 == [state EXCEPT !.toolStates.routineAligner.messages =
                                   Append(@, Message("agent", "agent", responseText)),
                               !.toolStates.routineAligner.isFinished = isFinished]
       IN  Commit([s1 EXCEPT !.isLoadingMessage = FALSE], "routineResolved")
    /\ UNCHANGED <<nextRid, now, hasKey, pollStarts>>

routineRejected(r, error) ==
    /\ r.kind = "routineSend"
    /\ CanToast
    /\ pending' = pending \ {r}
    /\ LET errorMsg == getFriendlyErrorMessage(error, <<"Ocorreu", "um", "erro", "ao", "processar", "sua", "resposta">>)
           s1 == handleApiError(state, errorMsg)
           s2 == [s1 EXCEPT !.toolStates.routineAligner.error = errorMsg]
       IN  /\ hasKey' = handleApiErrorKey(errorMsg)
           /\ Commit([s2 EXCEPT !.isLoadingMessage = FALSE], "routineRejected")
    /\ UNCHANGED <<nextRid, now, pollStarts>>

(***************************************************************************)
(* Schedules and the poller of App.tsx.                                    *)
(***************************************************************************)
InputSchedules == {[time |-> t, activity |-> a] : t \in InputTimes, a \in InputActivities}

\* addSchedule: the new schedule is identified by the clock alone.
addSchedule(schedule) ==
    /\ Len(state.schedules) < MaxSchedules
    /\ CanToast
    /\ LET newSchedule == [time |-> schedule.time, activity |-> schedule.activity,
                           id |-> <<"schedule", ToString(now)>>, status |-> "scheduled"]
           s1 == [state EXCEPT !.schedules = Append(@, newSchedule)]
       IN  Commit(addToast(s1, <<"Sessão", "agendada", "para", ToString(schedule.time)>>, "success"),
                  "addSchedule")
    /\ pollStarts' = Append(pollStarts, 0)
    /\ UNCHANGED <<pending, nextRid, now, hasKey>>

\* schedules.find(s => s.id === scheduleId), as an index; 0 when there is none.
findById(schedules, scheduleId) ==
    IF \E i \in 1..Len(schedules) : schedules[i].id = scheduleId
    THEN CHOOSE i \in 1..Len(schedules) :
             /\ schedules[i].id = scheduleId
             /\ \A j \in 1..(i - 1) : schedules[j].id # scheduleId
    ELSE 0

updateScheduleStatus(s, scheduleId, status) ==
    LET i == findById(s.schedules, scheduleId)
    IN  IF i # 0 THEN [s EXCEPT !.schedules[i].status = status] ELSE s

IsDue(schedule) == schedule.status = "scheduled" /\ schedule.time <= now

\* schedules.find(s => s.status === 'scheduled' && s.time <= now), as an
\* index; 0 when no schedule is due.
dueSchedule ==
    IF \E i \in 1..Len(state.schedules) : IsDue(state.schedules[i])
    THEN CHOOSE i \in 1..Len(state.schedules) :
             /\ IsDue(state.schedules[i])
             /\ \A j \in 1..(i - 1) : ~IsDue(state.schedules[j])
    ELSE 0

\* A tick that does not look at the session.
checkSchedulesInterrupts ==
    /\ IF dueSchedule = 0
       THEN /\ UNCHANGED <<state, storage, pollStarts>>
            /\ lastOp' = [name |-> "checkSchedulesIdle", replaced |-> state.currentSession # NoSession]
       ELSE /\ CanToast
            /\ LET due == state.schedules[dueSchedule]
                   s1 == updateScheduleStatus(state, due.id, "completed")
                   s2 == addToast(s1, <<"Seu", "mentor", "está", "ligando", "para", "a", "sua", due.activity>>, "info")
               IN  Commit(startSessionState(s2, HandlerSession(due)), "checkSchedules")
            /\ pollStarts' = [pollStarts EXCEPT ![dueSchedule] = Min(@ + 1, 2)]
    /\ UNCHANGED <<pending, nextRid, now, hasKey>>

\* One tick of checkSchedulesInterval.  pollStarts counts, per schedule of the
\* list, the sessions the poller started for it (it stops counting at 2).
checkSchedules ==
    /\ IF state.currentSession # NoSession \/ dueSchedule = 0
       THEN /\ UNCHANGED <<state, storage, pollStarts>>
            /\ lastOp' = [name |-> "checkSchedulesIdle", replaced |-> state.currentSession # NoSession]
       ELSE /\ CanToast
            /\ LET due == state.schedules[dueSchedule]
                   s1 == updateScheduleStatus(state, due.id, "completed")
                   s2 == addToast(s1, <<"Seu", "mentor", "está", "ligando", "para", "a", "sua", due.activity>>, "info")
               IN  Commit(startSessionState(s2, HandlerSession(due)), "checkSchedules")
            /\ pollStarts' = [pollStarts EXCEPT ![dueSchedule] = Min(@ + 1, 2)]
    /\ UNCHANGED <<pending, nextRid, now, hasKey>>

\* Time passes.
Advance ==
    /\ now < MaxClock
    /\ now' = now + 1
    /\ UNCHANGED <<state, storage, pending, nextRid, hasKey, pollStarts, lastOp>>

(***************************************************************************)
(* Reload: the store is created again and hydrated from local storage.     *)
(***************************************************************************)
\* persist's hydrate: the stored snapshot is merged over the initial state and
\* set, written back, and onRehydrateStorage then sets the derived scalars on
\* the state object.  The requests of the page that is left are dropped.
rehydrate ==
    /\ LET merged == merge(storage, InitialState)
       IN  /\ state' = onRehydrateStorage(merged)
           /\ storage' = partialize(merged)
    /\ lastOp' = [name |-> "rehydrate", replaced |-> FALSE]
    /\ pending' = {}
    /\ hasKey' = "null"
    /\ pollStarts' = IF storage = NoStorage THEN <<>> ELSE pollStarts
    /\ UNCHANGED <<nextRid, now>>

(***************************************************************************)
(* The key store and its hook (src/hooks/useAistudioKey.ts).               *)
(***************************************************************************)
\* The results of window.aistudio.hasSelectedApiKey() and openSelectKey().
InputKeyChecks == {"true", "false", "error"}

InputDialogs == {"ok", "error"}

KeyManagers == [enabled : BOOLEAN, aistudio : BOOLEAN]

\* checkKey: without the feature or without window.aistudio the key counts as
\* present; a failed check counts as no key.
checkKey(hasApiKey) ==
    /\ hasKey' = IF ~keyManager.enabled \/ ~keyManager.aistudio THEN "true"
                 ELSE IF hasApiKey = "true" THEN "true" ELSE "false"
    /\ lastOp' = [name |-> "checkKey", replaced |-> FALSE]
    /\ UNCHANGED <<state, storage, pending, nextRid, now, pollStarts>>

\* The effect of the hook: the key is checked while its status is unknown.
useEffectCheckKey(hasApiKey) ==
    /\ hasKey = "null"
    /\ checkKey(hasApiKey)

\* selectKey: it returns at once without the feature or without
\* window.aistudio; a dialog that completes sets hasKey, a failing one is logged.
selectKey(dialog) ==
    /\ hasKey' = IF ~keyManager.enabled \/ ~keyManager.aistudio THEN hasKey
                 ELSE IF dialog = "ok" THEN "true" ELSE hasKey
    /\ lastOp' = [name |-> "selectKey", replaced |-> FALSE]
    /\ UNCHANGED <<state, storage, pending, nextRid, now, pollStarts>>

(***************************************************************************)
(* Specifications.                                                         *)
(***************************************************************************)
\* Every operation of the store and of the poller, in runs of at most
\* MaxSteps operations, with the key store left to handleApiError; the runs draw
\* their updates of the dimensions from two of InputUpdates.
BudgetUpdates == {[physical |-> 61], [emotional |-> 130]}

Budget == steps < MaxSteps /\ steps' = steps + 1 /\ UNCHANGED keyManager

Next ==
    \/ Budget /\ \E session \in InputSessions : startSession(session)
    \/ Budget /\ endSession
    \/ Budget /\ \E agentId \in InputAgents : switchAgent(agentId)
    \/ Budget /\ goBackToAgentRoom
    \/ Budget /\ handleSend
    \/ Budget /\ \E r \in pending, text \in AgentResponses : agentResolved(r, text)
    \/ Budget /\ \E r \in pending, error \in InputErrors : agentRejected(r, error)
    \/ Budget /\ \E r \in pending : initDoshaChatResolved(r, Question)
    \/ Budget /\ \E r \in pending, error \in InputErrors : initDoshaChatRejected(r, error)
    \/ Budget /\ handleDoshaSendMessage(UserText)
    \/ Budget /\ \E r \in pending, text \in DoshaResponses : doshaResolved(r, text)
    \/ Budget /\ \E r \in pending, error \in InputErrors : doshaRejected(r, error)
    \/ Budget /\ \E r \in pending : initRoutineAlignerChatResolved(r, Question)
    \/ Budget /\ \E r \in pending, error \in InputErrors : initRoutineAlignerChatRejected(r, error)
    \/ Budget /\ handleRoutineAlignerSendMessage(UserText)
    \/ Budget /\ \E r \in pending, text \in RoutineResponses : routineResolved(r, text)
    \/ Budget /\ \E r \in pending, error \in InputErrors : routineRejected(r, error)
    \/ Budget /\ \E schedule \in InputSchedules : addSchedule(schedule)
    \/ Budget /\ checkSchedules
    \/ Budget /\ Advance
    \/ Budget /\ \E updates \in BudgetUpdates : updateUsvDimensions(updates)
    \/ Budget /\ \E p \in InputUsvValues \cap 0..100, e \in InputUsvValues \cap 0..100 : handleSave(p, e)
    \/ Budget /\ \E view \in InputViews : setView(view)
    \/ Budget /\ closeOnboarding
    \/ Budget /\ \E i \in 1..Len(state.toasts) : removeToast(state.toasts[i].id)
    \/ Budget /\ rehydrate

Spec == Init /\ [][Next]_vars

\* The specifications below run a part of the operations, without a budget.
Free == UNCHANGED <<steps, keyManager>>

\* The wellness dimensions: the visualizer is opened, saved or left, the
\* store's action is called, toasts are dismissed and the page is reloaded.
UsvNext ==
    \/ Free /\ startSession(ToolSession("wellness_visualizer"))
    \/ Free /\ endSession
    \/ Free /\ \E updates \in InputUpdates : updateUsvDimensions(updates)
    \/ Free /\ \E p \in InputUsvValues \cap 0..100, e \in InputUsvValues \cap 0..100 : handleSave(p, e)
    \/ Free /\ \E i \in 1..Len(state.toasts) : removeToast(state.toasts[i].id)
    \/ Free /\ rehydrate

UsvSpec == Init /\ [][UsvNext]_vars

\* The conversations: sessions, requests and their settling, and reloads.
ChatNext ==
    \/ Free /\ \E session \in InputSessions : startSession(session)
    \/ Free /\ endSession
    \/ Free /\ \E agentId \in InputAgents : switchAgent(agentId)
    \/ Free /\ goBackToAgentRoom
    \/ Free /\ handleSend
    \/ Free /\ \E r \in pending, text \in AgentResponses : agentResolved(r, text)
    \/ Free /\ \E r \in pending, error \in InputErrors : agentRejected(r, error)
    \/ Free /\ \E r \in pending : initDoshaChatResolved(r, Question)
    \/ Free /\ \E r \in pending, error \in InputErrors : initDoshaChatRejected(r, error)
    \/ Free /\ handleDoshaSendMessage(UserText)
    \/ Free /\ \E r \in pending, text \in DoshaResponses : doshaResolved(r, text)
    \/ Free /\ \E r \in pending, error \in InputErrors : doshaRejected(r, error)
    \/ Free /\ \E r \in pending : initRoutineAlignerChatResolved(r, Question)
    \/ Free /\ \E r \in pending, error \in InputErrors : initRoutineAlignerChatRejected(r, error)
    \/ Free /\ handleRoutineAlignerSendMessage(UserText)
    \/ Free /\ \E r \in pending, text \in RoutineResponses : routineResolved(r, text)
    \/ Free /\ \E r \in pending, error \in InputErrors : routineRejected(r, error)
    \/ Free /\ \E i \in 1..Len(state.toasts) : removeToast(state.toasts[i].id)
    \/ Free /\ rehydrate

ChatSpec == Init /\ [][ChatNext]_vars

\* The agent conversations alone: the rooms are opened, the room in session
\* sends (AgentRoom.handleSend), the store's handleSendMessage is called for
\* any agent, requests settle in any order, and the page reloads.
AgentNext ==
    \/ Free /\ \E agentId \in InputAgents : startSession(AgentSession(agentId))
    \/ Free /\ \E agentId \in InputAgents : switchAgent(agentId)
    \/ Free /\ handleSend
    \/ Free /\ \E agentId \in InputAgents : handleSendMessage(agentId, UserText)
    \/ Free /\ \E r \in pending, text \in AgentResponses : agentResolved(r, text)
    \/ Free /\ \E r \in pending, error \in InputErrors : agentRejected(r, error)
    \/ Free /\ rehydrate

AgentSpec == Init /\ [][AgentNext]_vars

\* The button of WellnessVisualizer that leads back to the agent room.
onClickGoBack ==
    /\ state.currentSession = ToolSession("wellness_visualizer")
    /\ goBackToAgentRoom

\* The rooms: sessions of agents and of tools are started and ended, the
\* agent is switched, the visualizer leads back to the agent room, messages
\* are sent to any agent and answered, and the page reloads.
RoomNext ==
    \/ Free /\ \E session \in InputSessions : startSession(session)
    \/ Free /\ endSession
    \/ Free /\ \E agentId \in InputAgents : switchAgent(agentId)
    \/ Free /\ onClickGoBack
    \/ Free /\ \E agentId \in InputAgents : handleSendMessage(agentId, UserText)
    \/ Free /\ \E r \in pending, text \in AgentResponses : agentResolved(r, text)
    \/ Free /\ rehydrate

RoomSpec == Init /\ [][RoomNext]_vars

\* The five asynchronous actions from their start to their settling.
AsyncNext ==
    \/ Free /\ \E session \in InputSessions : startSession(session)
    \/ Free /\ handleSend
    \/ Free /\ \E r \in pending, text \in AgentResponses : agentResolved(r, text)
    \/ Free /\ \E r \in pending, error \in InputErrors : agentRejected(r, error)
    \/ Free /\ \E r \in pending : initDoshaChatResolved(r, Question)
    \/ Free /\ \E r \in pending, error \in InputErrors : initDoshaChatRejected(r, error)
    \/ Free /\ handleDoshaSendMessage(UserText)
    \/ Free /\ \E r \in pending, text \in DoshaResponses : doshaResolved(r, text)
    \/ Free /\ \E r \in pending, error \in InputErrors : doshaRejected(r, error)
    \/ Free /\ \E r \in pending : initRoutineAlignerChatResolved(r, Question)
    \/ Free /\ \E r \in pending, error \in InputErrors : initRoutineAlignerChatRejected(r, error)
    \/ Free /\ handleRoutineAlignerSendMessage(UserText)
    \/ Free /\ \E r \in pending, text \in RoutineResponses : routineResolved(r, text)
    \/ Free /\ \E r \in pending, error \in InputErrors : routineRejected(r, error)

AsyncSpec == Init /\ [][AsyncNext]_vars

\* The failures of the API calls with a key store in use: the key is checked
\* and selected, one agent room and the two tools are opened, their
\* conversations are started, and every call fails with every error.
ErrorSessions ==
    {AgentSession("COHERENCE"), ToolSession("dosha_diagnosis"), ToolSession("routine_aligner")}

ErrorNext ==
    \/ Free /\ \E hasApiKey \in InputKeyChecks : useEffectCheckKey(hasApiKey)
    \/ Free /\ \E dialog \in InputDialogs : selectKey(dialog)
    \/ Free /\ \E session \in ErrorSessions : startSession(session)
    \/ Free /\ handleSend
    \/ Free /\ \E r \in pending, error \in KeyErrors : agentRejected(r, error)
    \/ Free /\ \E r \in pending : initDoshaChatResolved(r, Question)
    \/ Free /\ \E r \in pending, error \in KeyErrors : initDoshaChatRejected(r, error)
    \/ Free /\ handleDoshaSendMessage(UserText)
    \/ Free /\ \E r \in pending, error \in KeyErrors : doshaRejected(r, error)
    \/ Free /\ \E r \in pending : initRoutineAlignerChatResolved(r, Question)
    \/ Free /\ \E r \in pending, error \in KeyErrors : initRoutineAlignerChatRejected(r, error)
    \/ Free /\ handleRoutineAlignerSendMessage(UserText)
    \/ Free /\ \E r \in pending, error \in KeyErrors : routineRejected(r, error)

ErrorSpec == Init /\ [][ErrorNext]_vars

\* The key store in every environment of the hook: with or without the
\* feature and with or without window.aistudio.  The key is checked and
\* selected, the calls of an agent room fail, and the page reloads.
KeyInit ==
    /\ state = InitialState
    /\ storage = NoStorage
    /\ pending = {}
    /\ nextRid = 1
    /\ now = 0
    /\ hasKey = "null"
    /\ keyManager \in KeyManagers
    /\ pollStarts = <<>>
    /\ lastOp = [name |-> "init", replaced |-> FALSE]
    /\ steps = 0

KeyNext ==
    \/ Free /\ \E hasApiKey \in InputKeyChecks : useEffectCheckKey(hasApiKey)
    \/ Free /\ \E dialog \in InputDialogs : selectKey(dialog)
    \/ Free /\ \E agentId \in InputAgents : startSession(AgentSession(agentId))
    \/ Free /\ handleSend
    \/ Free /\ \E r \in pending, text \in AgentResponses : agentResolved(r, text)
    \/ Free /\ \E r \in pending, error \in InputErrors : agentRejected(r, error)
    \/ Free /\ \E i \in 1..Len(state.toasts) : removeToast(state.toasts[i].id)
    \/ Free /\ rehydrate

KeySpec == KeyInit /\ [][KeyNext]_vars

\* The schedules, the poller, the end of a session and the toasts' dismissal.
ScheduleNext ==
    \/ Free /\ endSession
    \/ Free /\ \E schedule \in InputSchedules : addSchedule(schedule)
    \/ Free /\ checkSchedules
    \/ Free /\ Advance
    \/ Free /\ \E i \in 1..Len(state.toasts) : removeToast(state.toasts[i].id)

ScheduleSpec == Init /\ [][ScheduleNext]_vars

\* The poller under fair scheduling: the interval timer keeps firing, so a
\* tick that can start a session is not postponed forever; every session
\* is ended and every toast is dismissed.
PollStartsSession == Free /\ checkSchedules /\ state.currentSession = NoSession /\ dueSchedule # 0

FairScheduleSpec ==
    /\ ScheduleSpec
    /\ SF_vars(PollStartsSession)
    /\ WF_vars(Free /\ endSession)
    /\ WF_vars(Free /\ \E i \in 1..Len(state.toasts) : removeToast(state.toasts[i].id))

(***************************************************************************)
(* Properties.                                                             *)
(***************************************************************************)
\* The score of an agent, doubled: COHERENCE = spiritual, HEALTH = physical,
\* EMOTIONAL_FINANCE = 100 - emotional, INVESTMENTS = financial and
\* SELF_KNOWLEDGE = the mean of spiritual and 100 - emotional.
Score2(agentId) ==
    CASE agentId = "COHERENCE" -> 2 * state.usv.spiritual
      [] agentId = "HEALTH" -> 2 * state.usv.physical
      [] agentId = "EMOTIONAL_FINANCE" -> 2 * (100 - state.usv.emotional)
      [] agentId = "INVESTMENTS" -> 2 * state.usv.financial
      [] agentId = "SELF_KNOWLEDGE" -> state.usv.spiritual + (100 - state.usv.emotional)

\* C1: in every reachable state, the initial one included, recommendation is
\* an agent whose score computed from the current usv is lowest.
C1_RecommendationIsLowest ==
    \A agentId \in Agents : Score2(state.recommendation) <= Score2(agentId)

Sum4 == state.usv.spiritual + (100 - state.usv.emotional) + state.usv.physical + state.usv.financial

\* C2: in every reachable state ucs is the mean of spiritual, 100 - emotional,
\* physical and financial rounded to the nearest integer, a half rounded up:
\* ucs - 1/2 <= mean < ucs + 1/2.
C2_UcsIsRoundedMean ==
    /\ 4 * state.ucs - 2 <= Sum4
    /\ Sum4 < 4 * state.ucs + 2

\* updateUsvDimensions has left a mean that ends in .5, and ucs moved.
C2_Witness ==
    /\ lastOp.name = "updateUsvDimensions"
    /\ Sum4 % 4 = 2
    /\ state.ucs # InitialState.ucs

\* C3: while a request of an asynchronous store action awaits its response,
\* isLoadingMessage is true.
C3_LoadingWhilePending == pending # {} => state.isLoadingMessage

\* C4: isLoadingMessage is true only while a request awaits its response: with
\* no request outstanding, also after a reload, it is false.
C4_LoadingOnlyWhilePending == pending = {} => ~state.isLoadingMessage

\* C5: the poller starts a session at most once for each schedule.
C5_StartedAtMostOnce == \A i \in 1..Len(pollStarts) : pollStarts[i] <= 1

\* C6: a tick that finds no session and a due schedule completes the first
\* due schedule of the list, adds one info toast, starts the handler session
\* that carries that schedule, and changes no other schedule.
C6_TickHandlesFirstDue ==
    [][(checkSchedules /\ state.currentSession = NoSession /\ dueSchedule # 0) =>
        /\ Len(state'.schedules) = Len(state.schedules)
        /\ state'.schedules[dueSchedule].status = "completed"
        /\ \A j \in 1..Len(state.schedules) :
              j # dueSchedule => state'.schedules[j] = state.schedules[j]
        /\ Len(state'.toasts) = Len(state.toasts) + 1
        /\ state'.toasts[Len(state'.toasts)].type = "info"
        /\ state'.currentSession = HandlerSession(state.schedules[dueSchedule])]_vars

\* C7: under fair scheduling every schedule that is due is eventually
\* completed, with a handler session started for it.
C7_DueEventuallyHandled ==
    \A i \in 1..MaxSchedules :
        (i <= Len(state.schedules) /\ IsDue(state.schedules[i]))
            ~> (/\ i <= Len(state.schedules)
                /\ state.schedules[i].status = "completed"
                /\ pollStarts[i] >= 1)

\* C8: after the state is loaded from local storage, ucs and recommendation
\* are the values calculateUcs and getRecommendation give for the loaded usv.
C8_RehydrateRecomputes ==
    lastOp.name = "rehydrate" =>
        /\ state.ucs = calculateUcs(state.usv)
        /\ state.recommendation = getRecommendation(state.usv)

\* A reload whose stored recommendation differs from the computed one.
C8_Witness ==
    /\ lastOp.name = "rehydrate"
    /\ storage # NoStorage
    /\ storage.recommendation # state.recommendation

PersistedFields == (DOMAIN InitialState) \ {"doshaChat", "routineAlignerChat"}

RestoredFields ==
    {"usv", "activeView", "currentSession", "lastAgentContext", "chatHistories",
     "toolStates", "toasts", "schedules", "isOnboardingVisible"}

\* C9: the snapshot holds every field but doshaChat and routineAlignerChat, and
\* a load gives back the saved usv, activeView, currentSession,
\* lastAgentContext, chatHistories, toolStates, toasts, schedules and
\* isOnboardingVisible, with both chats null.
C9_SaveLoadRoundTrip ==
    [][/\ storage' # NoStorage => DOMAIN storage' = PersistedFields
       /\ rehydrate =>
            /\ \A k \in RestoredFields : state'[k] = state[k]
            /\ state'.doshaChat = NoChat
            /\ state'.routineAlignerChat = NoChat]_vars

\* A reload of a dosha session whose chat had been created: the conversation
\* is back, the chat is not.
C9_Witness ==
    /\ lastOp.name = "rehydrate"
    /\ state.currentSession = ToolSession("dosha_diagnosis")
    /\ Len(state.toolStates.doshaDiagnosis.messages) > 0
    /\ state.doshaChat = NoChat

\* C10: currentSession is null or one session; startSession(s) makes it s
\* whatever was active, and endSession makes it null and leaves
\* lastAgentContext, chatHistories and schedules alone.
C10_OneSession ==
    [][/\ "type" \in DOMAIN state'.currentSession
       /\ \A session \in InputSessions :
            startSession(session) => state'.currentSession = session
       /\ endSession =>
            /\ state'.currentSession = NoSession
            /\ state'.lastAgentContext = state.lastAgentContext
            /\ state'.chatHistories = state.chatHistories
            /\ state'.schedules = state.schedules]_vars

\* startSession has replaced an active session by another.
C10_Witness ==
    /\ lastOp = [name |-> "startSession", replaced |-> TRUE]
    /\ state.currentSession = AgentSession("HEALTH")
    /\ state.lastAgentContext = "HEALTH"
    /\ Len(state.chatHistories["COHERENCE"]) > 0

\* The steps of the call handleSendMessage(agentId, UserText): the call
\* itself and the settling of a request it issued.
SendStep(agentId) ==
    \/ handleSendMessage(agentId, UserText)
    \/ \E r \in pending :
          /\ r.agentId = agentId
          /\ \/ \E text \in AgentResponses : agentResolved(r, text)
             \/ \E error \in InputErrors : agentRejected(r, error)

\* C11: every step of handleSendMessage(agentId, text) adds one message to
\* chatHistories[agentId] and leaves the history of every other agent and the
\* message lists of the dosha diagnosis and of the routine aligner as they
\* were, whichever requests are in flight and in whichever order they settle.
C11_OnlyOwnHistory ==
    [][\A agentId \in InputAgents :
          SendStep(agentId) =>
              /\ Len(state'.chatHistories[agentId]) = Len(state.chatHistories[agentId]) + 1
              /\ \A other \in Agents \ {agentId} :
                    state'.chatHistories[other] = state.chatHistories[other]
              /\ state'.toolStates.doshaDiagnosis.messages = state.toolStates.doshaDiagnosis.messages
              /\ state'.toolStates.routineAligner.messages = state.toolStates.routineAligner.messages]_vars

\* The second of two overlapping requests, sent for HEALTH while another
\* agent was in session, has been answered first: the answer is in the
\* history of HEALTH and the request of COHERENCE still awaits its response.
C11_Witness ==
    /\ lastOp.name = "agentResolved"
    /\ state.currentSession.type = "agent"
    /\ state.currentSession.id # "HEALTH"
    /\ \E r \in pending : r.kind = "agent" /\ r.agentId = "COHERENCE" /\ r.rid < nextRid - 1
    /\ LET history == state.chatHistories["HEALTH"]
       IN  /\ Len(history) >= 2
           /\ history[Len(history)].id[1] = "agent"
           /\ history[Len(history) - 1].sender = "user"

\* C12: a call of handleSendMessage issues exactly one request, and the
\* failure of a request removes it and issues none.
C12_NoRetry ==
    [][/\ \A agentId \in InputAgents :
            handleSendMessage(agentId, UserText) =>
                /\ pending \subseteq pending'
                /\ Cardinality(pending' \ pending) = 1
                /\ \A r \in pending' \ pending : r.kind = "agent" /\ r.agentId = agentId
       /\ \A r \in pending, error \in InputErrors :
            agentRejected(r, error) =>
                /\ pending' = pending \ {r}
                /\ nextRid' = nextRid]_vars

\* A request failed, its error is in the history and nothing is in flight.
C12_Witness ==
    /\ lastOp.name = "agentRejected"
    /\ pending = {}
    /\ \E agentId \in InputAgents :
          LET history == state.chatHistories[agentId]
          IN  /\ Len(history) >= 2
              /\ history[Len(history)].id[1] = "agent-error"

IsPrefix(a, b) == Len(a) <= Len(b) /\ SubSeq(b, 1, Len(a)) = a

Last(seq) == seq[Len(seq)]

\* C15: a call of handleSendMessage(agentId, text) appends the user's message
\* to chatHistories[agentId] at once, the settling of its request appends one
\* message of the agent (the response, or the error text), and no step
\* removes, reorders or modifies a message a history holds.
C15_TwoMessagesPerCall ==
    [][/\ \A a \in Agents : IsPrefix(state.chatHistories[a], state'.chatHistories[a])
       /\ \A agentId \in InputAgents :
            handleSendMessage(agentId, UserText) =>
                /\ Len(state'.chatHistories[agentId]) = Len(state.chatHistories[agentId]) + 1
                /\ Last(state'.chatHistories[agentId]).sender = "user"
                /\ Last(state'.chatHistories[agentId]).text = UserText
       /\ \A r \in pending, text \in AgentResponses :
            agentResolved(r, text) =>
                /\ Len(state'.chatHistories[r.agentId]) = Len(state.chatHistories[r.agentId]) + 1
                /\ Last(state'.chatHistories[r.agentId]).sender = "agent"
                /\ Last(state'.chatHistories[r.agentId]).text = text
       /\ \A r \in pending, error \in InputErrors :
            agentRejected(r, error) =>
                /\ Len(state'.chatHistories[r.agentId]) = Len(state.chatHistories[r.agentId]) + 1
                /\ Last(state'.chatHistories[r.agentId]).sender = "agent"
                /\ Last(state'.chatHistories[r.agentId]).text =
                       getFriendlyErrorMessage(error, <<"Desculpe", AGENTS[r.agentId].name>>)]_vars

\* Two calls for the same agent have both settled: the greeting, then the two
\* messages of the user and the two of the agent.
C15_Witness ==
    /\ pending = {}
    /\ nextRid = 3
    /\ LET history == state.chatHistories["COHERENCE"]
       IN  /\ Len(history) = 5
           /\ history[1].id = <<"agent-initial", "COHERENCE">>
           /\ Cardinality({i \in 1..5 : history[i].sender = "user"}) = 2

\* C16: the failure of the request of handleSendMessage appends to the agent's
\* history, behind the user's message, a message of the agent with the
\* friendly error text, adds one error toast with the same text, and ends the
\* call: the request is gone and isLoadingMessage is false.
C16_FailureBecomesState ==
    [][\A r \in pending, error \in InputErrors :
          agentRejected(r, error) =>
              LET history == state'.chatHistories[r.agentId]
              IN  /\ IsPrefix(state.chatHistories[r.agentId], history)
                  /\ Len(history) = Len(state.chatHistories[r.agentId]) + 1
                  /\ Last(history).sender = "agent"
                  /\ \E i \in 1..(Len(history) - 1) : history[i].sender = "user"
                  /\ Len(state'.toasts) = Len(state.toasts) + 1
                  /\ IsPrefix(state.toasts, state'.toasts)
                  /\ Last(state'.toasts).type = "error"
                  /\ Last(state'.toasts).message = Last(history).text
                  /\ r \notin pending'
                  /\ ~state'.isLoadingMessage]_vars

\* The request failed on the key: the error follows the user's message in the
\* history and is the text of the last toast.
C16_Witness ==
    /\ lastOp.name = "agentRejected"
    /\ hasKey = "false"
    /\ \E agentId \in InputAgents :
          LET history == state.chatHistories[agentId]
          IN  /\ Len(history) >= 2
              /\ history[Len(history) - 1].sender = "user"
              /\ Last(history).text = <<"Chave", "de", "API", "inválida">>
              /\ Len(state.toasts) >= 1
              /\ Last(state.toasts) = [id |-> <<"toast", ToString(now)>>,
                                        message |-> Last(history).text, type |-> "error"]

\* The toast handleDoshaSendMessage announces a detected dosha with.
VerdictToast(dosha) ==
    <<"Diagnóstico", "concluído:", "Desequilíbrio", "de", dosha, "detectado.">>

\* C13: when the response of the dosha conversation completes the diagnosis
\* and names a dosha, the toasts hold, once handleDoshaSendMessage has
\* finished, an info toast that announces the detected dosha.
C13_VerdictToast ==
    [][\A r \in pending :
          doshaResolved(r, DoshaVerdict) =>
              /\ state'.toolStates.doshaResult = "Vata"
              /\ \E i \in 1..Len(state'.toasts) :
                    /\ state'.toasts[i].type = "info"
                    /\ state'.toasts[i].message = VerdictToast("Vata")]_vars

\* A request of the tool's conversation that was issued before the
\* conversation was last reset: the init of a later start is still in flight.
StaleRequest(r, initKind, sendKind) ==
    /\ r.kind \in {initKind, sendKind}
    /\ \E later \in pending : later.kind = initKind /\ later.rid > r.rid

\* C14: the start of a dosha_diagnosis or routine_aligner session resets the
\* tool's conversation to no messages, not finished and no error, and the
\* greeting or reply of a request issued before that reset is never appended
\* to the conversation.
C14_OnlyTheStartedChat ==
    [][/\ startSession(ToolSession("dosha_diagnosis")) =>
            state'.toolStates.doshaDiagnosis = EmptyTool
       /\ startSession(ToolSession("routine_aligner")) =>
            state'.toolStates.routineAligner = EmptyTool
       /\ \A r \in pending :
            (/\ StaleRequest(r, "initDosha", "doshaSend")
             /\ \/ initDoshaChatResolved(r, Question)
                \/ \E text \in DoshaResponses : doshaResolved(r, text)) =>
                state'.toolStates.doshaDiagnosis.messages = state.toolStates.doshaDiagnosis.messages
       /\ \A r \in pending :
            (/\ StaleRequest(r, "initRoutine", "routineSend")
             /\ \/ initRoutineAlignerChatResolved(r, Question)
                \/ \E text \in RoutineResponses : routineResolved(r, text)) =>
                state'.toolStates.routineAligner.messages = state.toolStates.routineAligner.messages]_vars

\* The settling of request r: its response or its failure.
Settles(r) ==
    \/ \E text \in AgentResponses : agentResolved(r, text)
    \/ \E error \in KeyErrors : agentRejected(r, error)
    \/ initDoshaChatResolved(r, Question)
    \/ \E error \in KeyErrors : initDoshaChatRejected(r, error)
    \/ \E text \in DoshaResponses : doshaResolved(r, text)
    \/ \E error \in KeyErrors : doshaRejected(r, error)
    \/ initRoutineAlignerChatResolved(r, Question)
    \/ \E error \in KeyErrors : initRoutineAlignerChatRejected(r, error)
    \/ \E text \in RoutineResponses : routineResolved(r, text)
    \/ \E error \in KeyErrors : routineRejected(r, error)

\* C17: when the request of an asynchronous action resolves or rejects, the
\* action ends (its request awaits nothing any more and it issues none) and
\* its last step leaves isLoadingMessage false.
C17_SettlingClearsLoading ==
    [][\A r \in pending :
          Settles(r) =>
              /\ pending' = pending \ {r}
              /\ nextRid' = nextRid
              /\ ~state'.isLoadingMessage]_vars

\* The failure of a send of the routine aligner has cleared the flag that
\* the send had set.
C17_Witness ==
    /\ lastOp.name = "routineRejected"
    /\ ~state.isLoadingMessage
    /\ state.toolStates.routineAligner.error # NoText
    /\ Len(state.toolStates.routineAligner.messages) = 2

\* The failure of request r with `error`.
Fails(r, error) ==
    \/ agentRejected(r, error)
    \/ initDoshaChatRejected(r, error)
    \/ doshaRejected(r, error)
    \/ initRoutineAlignerChatRejected(r, error)
    \/ routineRejected(r, error)

\* C18: every failed API call adds one error toast with the friendly message;
\* hasKey becomes false when that message holds both "API" and "inválida",
\* and keeps its value for every other message.
C18_KeyResetOnKeyError ==
    [][\A r \in pending, error \in KeyErrors :
          Fails(r, error) =>
              LET friendlyMessage == Last(state'.toasts).message
              IN  /\ Len(state'.toasts) = Len(state.toasts) + 1
                  /\ IsPrefix(state.toasts, state'.toasts)
                  /\ Last(state'.toasts).type = "error"
                  /\ friendlyMessage = getFriendlyErrorMessage(error, friendlyMessage)
                  /\ IF /\ \E i \in 1..Len(friendlyMessage) : friendlyMessage[i] = "API"
                        /\ \E i \in 1..Len(friendlyMessage) : friendlyMessage[i] = "inválida"
                     THEN hasKey' = "false"
                     ELSE hasKey' = hasKey]_vars

\* A call failed on its quota while a key was selected: the toast names the
\* API, and the key is still selected.
C18_Witness ==
    /\ lastOp.name \in {"agentRejected", "initDoshaChatRejected", "doshaRejected",
                        "initRoutineAlignerChatRejected", "routineRejected"}
    /\ hasKey = "true"
    /\ Len(state.toasts) >= 1
    /\ Last(state.toasts).type = "error"
    /\ Last(state.toasts).message = <<"Cota", "da", "API", "excedida">>

\* C19: in every reachable state with hasKey = false, a selectKey whose
\* dialog completes without error sets hasKey to true, also where the
\* feature is disabled or window.aistudio is absent.
C19_SelectKeyRestores ==
    [][(hasKey = "false" /\ selectKey("ok")) => hasKey' = "true"]_vars

\* C20: a tick that finds a session changes nothing: every schedule keeps its
\* status, no toast is added and the session stays.
C20_BusyTickChangesNothing ==
    [][(checkSchedules /\ state.currentSession # NoSession) =>
          /\ state'.schedules = state.schedules
          /\ state'.toasts = state.toasts
          /\ state'.currentSession = state.currentSession
          /\ UNCHANGED <<state, storage, pending, pollStarts>>]_vars

\* The tick found the session of one schedule and another schedule due, and
\* left both.
C20_Witness ==
    /\ lastOp = [name |-> "checkSchedulesIdle", replaced |-> TRUE]
    /\ now = 0
    /\ state.currentSession.type = "scheduled_session_handler"
    /\ \E i \in 1..Len(state.schedules) :
          /\ IsDue(state.schedules[i])
          /\ pollStarts[i] = 0

\* The places of the initial message of agentId in its history.
InitialAt(s, agentId) ==
    {i \in 1..Len(s.chatHistories[agentId]) :
        s.chatHistories[agentId][i].id = <<"agent-initial", agentId>>}

\* C21: over startSession, switchAgent, goBackToAgentRoom and
\* handleSendMessage every agent's history holds at most one message with
\* the id agent-initial-<agentId>, which is then its first entry, and the
\* start of the session of an agent whose history is not empty adds nothing.
C21_OneInitialMessageFirst ==
    [][/\ \A agentId \in Agents : InitialAt(state', agentId) \subseteq {1}
       /\ \A agentId \in InputAgents :
            (/\ Len(state.chatHistories[agentId]) > 0
             /\ \/ startSession(AgentSession(agentId))
                \/ switchAgent(agentId)
                \/ goBackToAgentRoom /\ state.lastAgentContext = agentId) =>
                state'.chatHistories = state.chatHistories]_vars

\* The room of COHERENCE was opened, greeted and written to, and opened again
\* from the visualizer: the greeting is there once, in front of the message.
C21_Witness ==
    /\ lastOp = [name |-> "goBackToAgentRoom", replaced |-> TRUE]
    /\ state.currentSession = AgentSession("COHERENCE")
    /\ LET history == state.chatHistories["COHERENCE"]
       IN  /\ Len(history) >= 2
           /\ InitialAt(state, "COHERENCE") = {1}
           /\ history[2].sender = "user"

\* C22: goBackToAgentRoom makes the session the one of the agent of
\* lastAgentContext, or null when there is none; lastAgentContext is the
\* agent opened last: only the opening of an agent changes it, the start of
\* a session of another type and the way back leave it.
C22_BackToLastAgent ==
    [][/\ goBackToAgentRoom =>
            /\ state'.currentSession =
                  IF state.lastAgentContext # NoAgent
                  THEN AgentSession(state.lastAgentContext)
                  ELSE NoSession
            /\ state'.lastAgentContext = state.lastAgentContext
       /\ \A toolId \in InputTools :
            startSession(ToolSession(toolId)) => state'.lastAgentContext = state.lastAgentContext
       /\ \A agentId \in InputAgents :
            (startSession(AgentSession(agentId)) \/ switchAgent(agentId)) =>
                state'.lastAgentContext = agentId
       /\ state'.lastAgentContext # state.lastAgentContext =>
            \E agentId \in InputAgents :
                startSession(AgentSession(agentId)) \/ switchAgent(agentId)]_vars

\* The visualizer has led back to HEALTH, the agent opened after COHERENCE.
C22_Witness ==
    /\ lastOp = [name |-> "goBackToAgentRoom", replaced |-> TRUE]
    /\ state.currentSession = AgentSession("HEALTH")
    /\ state.lastAgentContext = "HEALTH"
    /\ Len(state.chatHistories["COHERENCE"]) > 0
    /\ Len(state.chatHistories["HEALTH"]) > 0

\* C23: without a chat handleDoshaSendMessage and
\* handleRoutineAlignerSendMessage do nothing: no message is appended,
\* isLoadingMessage and the error keep their values and no request is issued.
C23_NoChatNoSend ==
    [][/\ (handleDoshaSendMessage(UserText) /\ state.doshaChat = NoChat) =>
            /\ state'.toolStates = state.toolStates
            /\ state'.isLoadingMessage = state.isLoadingMessage
            /\ UNCHANGED <<state, storage, pending, nextRid>>
       /\ (handleRoutineAlignerSendMessage(UserText) /\ state.routineAlignerChat = NoChat) =>
            /\ state'.toolStates = state.toolStates
            /\ state'.isLoadingMessage = state.isLoadingMessage
            /\ UNCHANGED <<state, storage, pending, nextRid>>]_vars

\* A message was sent to the dosha diagnosis while its chat was still being
\* created: the conversation is empty and only the init awaits its response.
C23_Witness ==
    /\ lastOp = [name |-> "handleDoshaSendMessage", replaced |-> FALSE]
    /\ state.currentSession = ToolSession("dosha_diagnosis")
    /\ state.doshaChat = NoChat
    /\ state.toolStates.doshaDiagnosis.messages = <<>>
    /\ \A r \in pending : r.kind = "initDosha"
    /\ pending # {}

====
